---- MODULE Spec2Model ----
(***************************************************************************)
(* rand_derive: the macro Rand!{} (src/src/lib.rs) derives an              *)
(* implementation of rand::Rand for a struct or an enum.                   *)
(*                                                                         *)
(* The model has two halves.  The first is the macro itself: every rule of *)
(* macro_rules! Rand is an operator from the parsed item (the record that  *)
(* parse_item! hands to `Rand! { @item ... }`) to the emitted impl.  The   *)
(* second is the emitted `fn rand`, run step by step against a random      *)
(* source: the steps read only the emitted impl, never the definition, so  *)
(* what the generated code does is decided by what the macro emitted.      *)
(***************************************************************************)
EXTENDS Integers, Sequences, FiniteSets, TLC

\* Bounds of the model: the shapes the parsed item is drawn from.
MaxVariants == 3
MaxFields == 2
MaxTParams == 2
MaxPreds == 2

VARIABLES
    def,      \* the parsed item handed to Rand! { @item ... }
    rng,      \* the R: ::rand::Rng the generated fn is called with
    pc,       \* position: expansion, then the body of fn rand
    impl,     \* the item the expansion emitted
    variant,  \* `let variant = ...` (l.112)
    arm,      \* the constructor expression under evaluation
    payload,  \* field values generated so far, in evaluation order
    trace,    \* calls made on _rng, in order
    value     \* the value fn rand returned

vars == <<def, rng, pc, impl, variant, arm, payload, trace, value>>

RandBound == "::rand::Rand"

TypeNames == <<"T", "U", "V", "W">>
FieldNames == <<"x", "y", "z", "w">>
FieldTypes == <<"u8", "T", "Test2", "()">>
VariantNames == <<"A", "B", "C", "D", "E">>

\* What a user may have written after `where`, in the order written.  The
\* first one is the very bound the macro adds for T (tests::TestGeneric1).
UserPreds ==
    << [param |-> "T", bound |-> RandBound],
       [param |-> "T", bound |-> "'static"],
       [param |-> "U", bound |-> "Copy"],
       [param |-> "W", bound |-> "Sized"] >>

Kinds == {"unitary", "tuple", "record"}

----------------------------------------------------------------------------
\* The parsed item: what the pattern of the @item rules binds.

\* fields: $vfields / $fields.  A tuple field has no name.
Fields(kind, n) ==
    [i \in 1..n |->
        [ord |-> i - 1,
         ty |-> FieldTypes[i],
         name |-> IF kind = "record" THEN FieldNames[i] ELSE ""]]

\* kind and fields of one field group; a unitary group has no field list.
Shapes ==
    { [kind |-> k, fields |-> Fields(k, n)] :
        k \in {"tuple", "record"}, n \in 0..MaxFields }
    \cup { [kind |-> "unitary", fields |-> <<>>] }

\* One element of `variants: [...]`: ord is the 0-based declaration order.
Variant(i, shape) ==
    [ord |-> i - 1,
     kind |-> shape.kind,
     name |-> VariantNames[i],
     fields |-> shape.fields,
     num_fields |-> Len(shape.fields)]

Generics ==
    { [tnames |-> SubSeq(TypeNames, 1, t), preds |-> SubSeq(UserPreds, 1, p)] :
        t \in 0..MaxTParams, p \in 0..MaxPreds }

StructDefs ==
    { [item |-> "struct", name |-> "S",
       tnames |-> g.tnames, preds |-> g.preds,
       kind |-> s.kind, fields |-> s.fields,
       variants |-> <<>>, num_variants |-> 0] :
        g \in Generics, s \in Shapes }

\* An enum of n variants, n = 0 included: `enum Test2 { }` parses.
EnumDefs ==
    { [item |-> "enum", name |-> "E",
       tnames |-> g.tnames, preds |-> g.preds,
       kind |-> "", fields |-> <<>>,
       variants |-> [i \in DOMAIN vs |-> Variant(i, vs[i])],
       num_variants |-> Len(vs)] :
        g \in Generics,
        vs \in UNION { [1..n -> Shapes] : n \in 0..MaxVariants } }

Definitions == StructDefs \cup EnumDefs

----------------------------------------------------------------------------
\* The rules of macro_rules! Rand.

NoImpl == [tag |-> "none"]

\* (@sub $_input:tt $output:expr) => { $output }
Sub(input, output) == output

\* $rng.gen()
GenCall == "gen"

\* Not the code: IsOne with the two rules in the other order: the catch-all rule takes every list.
IsOne_OnlyElse(list, e, f) == f

\* Not the code: IsOne whose first rule takes a list of any length.
IsOne_OnlyThen(list, e, f) == e

\* (@isone [$_one:tt] $e:expr, $_f:expr) => { $e };
\* (@isone [$($_notone:tt)*] $_e:expr, $f:expr) => { $f };
IsOne(list, e, f) == IF Len(list) = 1 THEN e ELSE f

\* Not the code: GenRangeCall with an inclusive upper bound in mind: gen_range(0, N - 1).
GenRangeCall_OneLess(d) == [op |-> "gen_range", lo |-> 0, hi |-> d.num_variants - 1]

\* _rng.gen_range(0, $num_variants)
GenRangeCall(d) == [op |-> "gen_range", lo |-> 0, hi |-> d.num_variants]

\* let variant = Rand!(@isone [$($vname)*] 0, _rng.gen_range(0, $num_variants));
VariantExpr(d) ==
    IsOne([i \in DOMAIN d.variants |-> d.variants[i].name],
          [op |-> "const", lo |-> 0, hi |-> 0],
          GenRangeCall(d))

\* $name::$vname($(Rand!(@sub $vfield $rng.gen())),*)  and  $name($(...),*)
TupleInits(fields) ==
    [i \in DOMAIN fields |->
        [pos |-> i, name |-> "", expr |-> Sub(fields[i], GenCall)]]

\* Not the code: RecordInits that initialises something even for `C { }`.
RecordInits_Phantom(fields) ==
    IF fields = <<>>
    THEN << [pos |-> 1, name |-> "", expr |-> GenCall] >>
    ELSE [i \in DOMAIN fields |->
            [pos |-> i, name |-> fields[i].name, expr |-> GenCall]]

\* Not the code: RecordInits that pairs the values with the field names in reverse.
RecordInits_Reversed(fields) ==
    [i \in DOMAIN fields |->
        [pos |-> i, name |-> fields[Len(fields) + 1 - i].name, expr |-> GenCall]]

\* $name::$vname { $($fname: $rng.gen()),* }  and  $name { $(...),* }
RecordInits(fields) ==
    [i \in DOMAIN fields |->
        [pos |-> i, name |-> fields[i].name, expr |-> GenCall]]

\* The three rules of @enum and of @struct, chosen by $vkind / $kind.
\* vname is "" for a struct.
Construct(kind, name, vname, fields) ==
    CASE kind = "unitary" ->
            [ty |-> name, vname |-> vname, style |-> "unit", inits |-> <<>>]
      [] kind = "tuple" ->
            [ty |-> name, vname |-> vname, style |-> "tuple",
             inits |-> TupleInits(fields)]
      [] kind = "record" ->
            [ty |-> name, vname |-> vname, style |-> "record",
             inits |-> RecordInits(fields)]

\* Not the code: MatchArms with 1-based patterns.
MatchArms_FromOne(d) ==
    [i \in DOMAIN d.variants |->
        [ord |-> d.variants[i].ord + 1,
         expr |-> Construct(d.variants[i].kind, d.name,
                            d.variants[i].name, d.variants[i].fields)]]

\* $( $ord => Rand!(@enum $vkind _rng $name $vname $vfields), )+
MatchArms(d) ==
    [i \in DOMAIN d.variants |->
        [ord |-> d.variants[i].ord,
         expr |-> Construct(d.variants[i].kind, d.name,
                            d.variants[i].name, d.variants[i].fields)]]

\* Not the code: FallbackArm as `_ => unreachable!()`.
FallbackArm_Panics == "panic"

\* _ => loop { }
FallbackArm == "loop"

\* The body { fn rand<R: ::rand::Rng>(_rng: &mut R) -> Self { ... } } of an enum.
EnumBody(d) ==
    [tag |-> "enum",
     variant_expr |-> VariantExpr(d),
     arms |-> MatchArms(d),
     fallback |-> FallbackArm,
     expr |-> Construct("unitary", "", "", <<>>)]

\* The body of a struct: Rand!{@struct $kind _rng $name $fields }
StructBody(d) ==
    [tag |-> "struct",
     variant_expr |-> [op |-> "none", lo |-> 0, hi |-> 0],
     arms |-> <<>>,
     fallback |-> "",
     expr |-> Construct(d.kind, d.name, "", d.fields)]

\* Not the code: WhereClause without `$($preds)*`.
WhereClause_NoPreds(d) ==
    [i \in DOMAIN d.tnames |-> [param |-> d.tnames[i], bound |-> RandBound]]

\* [$($tnames: ::rand::Rand,)* $($preds)*]
WhereClause(d) ==
    [i \in DOMAIN d.tnames |-> [param |-> d.tnames[i], bound |-> RandBound]]
    \o d.preds

\* Not the code: InjectWhere without its first rule: `where` even before an empty clause.
InjectWhere_Always(clause, header, body) ==
    [tag |-> "impl", name |-> header.name, params |-> header.params,
     has_where |-> TRUE, clause |-> clause, body |-> body]

\* (@inject_where [] [$($_impl:tt)*] $body:tt) =>
\*     Rand!{@as_item $($_impl)* $body}
\* (@inject_where [$($clause:tt)*] [$($_impl:tt)*] $body:tt) =>
\*     Rand!{@as_item $($_impl)* where $($clause)* $body}
\* with (@as_item $i:item) => { $i }.
InjectWhere(clause, header, body) ==
    IF clause = <<>>
    THEN [tag |-> "impl", name |-> header.name, params |-> header.params,
          has_where |-> FALSE, clause |-> <<>>, body |-> body]
    ELSE [tag |-> "impl", name |-> header.name, params |-> header.params,
          has_where |-> TRUE, clause |-> clause, body |-> body]

\* impl<$($constr)*> ::rand::Rand for $name<$($params)*>
ImplHeader(d) == [name |-> d.name, params |-> d.tnames]

\* Not the code: EnumRuleMatches with `$(...)*` for the variants.
EnumRuleMatches_Star(d) == d.item = "enum"

\* The pattern of the enum rule: `variants: [ $({ ... },)+ ]`.
EnumRuleMatches(d) ==
    /\ d.item = "enum"
    /\ Len(d.variants) >= 1
    /\ \A i \in DOMAIN d.variants : d.variants[i].kind \in Kinds

\* The pattern of the struct rule.
StructRuleMatches(d) == d.item = "struct" /\ d.kind \in Kinds

\* Rand! { @item ... }: the first rule whose pattern matches, expanded to the
\* end; NoImpl when no rule matches (the compiler rejects the invocation).
Rand(d) ==
    IF EnumRuleMatches(d)
    THEN InjectWhere(WhereClause(d), ImplHeader(d), EnumBody(d))
    ELSE IF StructRuleMatches(d)
    THEN InjectWhere(WhereClause(d), ImplHeader(d), StructBody(d))
    ELSE NoImpl

----------------------------------------------------------------------------
\* The random source.

\* Rng::gen_range(low, high) returns a value of [low, high).  It is a
\* provided method of the trait, so an R that overrides it can return
\* anything; "any" stands for such an R, with one value outside the range.
GenRange(r, lo, hi) == IF r = "contract" THEN lo..(hi - 1) ELSE lo..hi

\* `match variant { ... }`: the index of the arm whose pattern is v, 0 when
\* only `_` matches.
SelectArm(arms, v) ==
    IF \E i \in DOMAIN arms : arms[i].ord = v
    THEN CHOOSE i \in DOMAIN arms :
            arms[i].ord = v /\ \A j \in 1..(i - 1) : arms[j].ord # v
    ELSE 0

NoArm == Construct("unitary", "", "", <<>>)

NoValue == [tag |-> "none"]

----------------------------------------------------------------------------
Init ==
    /\ def \in Definitions
    /\ rng = "contract"
    /\ pc = "parsed"
    /\ impl = NoImpl
    /\ variant = 0
    /\ arm = NoArm
    /\ payload = <<>>
    /\ trace = <<>>
    /\ value = NoValue

InitAnyRng ==
    /\ def \in Definitions
    /\ rng \in {"contract", "any"}
    /\ pc = "parsed"
    /\ impl = NoImpl
    /\ variant = 0
    /\ arm = NoArm
    /\ payload = <<>>
    /\ trace = <<>>
    /\ value = NoValue

\* The compiler expands Rand! { @item ... } for the parsed item.
Expand ==
    /\ pc = "parsed"
    /\ impl' = Rand(def)
    /\ pc' = IF impl'.tag = "none" THEN "compile_error" ELSE "compiled"
    /\ UNCHANGED <<def, rng, variant, arm, payload, trace, value>>

\* <Ty as Rand>::rand(&mut rng) is called and reaches its first statement.
CallRand ==
    /\ pc = "compiled"
    /\ IF impl.body.tag = "enum"
       THEN pc' = "let_variant" /\ arm' = arm
       ELSE pc' = "construct" /\ arm' = impl.body.expr
    /\ UNCHANGED <<def, rng, impl, variant, payload, trace, value>>

\* let variant = <0 or _rng.gen_range(0, N)>;
LetVariant ==
    /\ pc = "let_variant"
    /\ LET e == impl.body.variant_expr IN
         IF e.op = "gen_range"
         THEN \E r \in GenRange(rng, e.lo, e.hi) :
                /\ variant' = r
                /\ trace' = Append(trace, [op |-> "gen_range", lo |-> e.lo,
                                           hi |-> e.hi, ret |-> r])
         ELSE /\ variant' = e.lo
              /\ trace' = trace
    /\ pc' = "match"
    /\ UNCHANGED <<def, rng, impl, arm, payload, value>>

\* match variant { $ord => ..., _ => loop { } }
MatchVariant ==
    /\ pc = "match"
    /\ LET a == SelectArm(impl.body.arms, variant) IN
         IF a = 0
         THEN pc' = impl.body.fallback /\ arm' = arm
         ELSE pc' = "construct" /\ arm' = impl.body.arms[a].expr
    /\ UNCHANGED <<def, rng, impl, variant, payload, trace, value>>

\* The next field initialiser of the constructor expression, left to right.
\* A gen() call returns a fresh value, named by its place among the calls.
GenField ==
    /\ pc = "construct"
    /\ Len(payload) < Len(arm.inits)
    /\ LET f == arm.inits[Len(payload) + 1] IN
         /\ f.expr = GenCall
         /\ trace' = Append(trace, [op |-> "gen", lo |-> 0, hi |-> 0,
                                    ret |-> Len(trace) + 1])
         /\ payload' = Append(payload, [pos |-> f.pos, name |-> f.name,
                                        val |-> Len(trace) + 1])
    /\ UNCHANGED <<def, rng, pc, impl, variant, arm, value>>

\* Every initialiser is evaluated: the value is built and returned.
Return ==
    /\ pc = "construct"
    /\ Len(payload) = Len(arm.inits)
    /\ value' = [tag |-> "value", ty |-> arm.ty, vname |-> arm.vname,
                 style |-> arm.style, payload |-> payload]
    /\ pc' = "done"
    /\ UNCHANGED <<def, rng, impl, variant, arm, payload, trace>>

\* loop { }: one more turn of the empty loop.
Spin ==
    /\ pc = "loop"
    /\ UNCHANGED vars

\* The steps under a random source that keeps the contract of gen_range:
\* `loop { }` is then never entered (C3), and Spin never taken.
Next ==
    \/ Expand
    \/ CallRand
    \/ LetVariant
    \/ MatchVariant
    \/ GenField
    \/ Return

\* The steps under any R: ::rand::Rng.
NextAnyRng ==
    \/ Next
    \/ Spin

Spec == Init /\ [][Next]_vars

SpecAnyRng == InitAnyRng /\ [][NextAnyRng]_vars

\* A sequential program takes its next step: weak fairness of every step.
FairSpec == Init /\ [][Next]_vars /\ WF_vars(Next)

----------------------------------------------------------------------------
\* Vocabulary of the properties.

NumVariants == Len(def.variants)

IsEnum == def.item = "enum"

Emitted == impl.tag = "impl"

\* `let variant = ...` has been evaluated.
AfterLet == pc \in {"match", "construct", "done", "loop", "panic"}

\* `match variant` has chosen an arm.
AfterMatch == pc \in {"construct", "done", "loop", "panic"}

IsGen(e) == e.op = "gen"

IsRangeDraw(e) == e.op = "gen_range"

GenCalls == SelectSeq(trace, IsGen)

RangeDraws == SelectSeq(trace, IsRangeDraw)

\* The declared fields of the group under construction: the struct's, or
\* those of the variant whose declaration-order ordinal is `variant`.
SelectedFields ==
    IF IsEnum THEN def.variants[variant + 1].fields ELSE def.fields

----------------------------------------------------------------------------
\* C1: for an enum of N >= 2 variants the index is drawn by
\* gen_range(0, N), every index of [0, N) can be drawn, index i is
\* dispatched to the i-th declared variant and to no other, so that the
\* value built is the variant whose ordinal is the index drawn.
C1_IndexBijection ==
    (IsEnum /\ NumVariants >= 2 /\ Emitted) =>
        /\ \A i \in 0..(NumVariants - 1) :
              /\ SelectArm(impl.body.arms, i) = i + 1
              /\ impl.body.arms[i + 1].expr.vname = def.variants[i + 1].name
              /\ \A j \in 0..(NumVariants - 1) :
                    i # j => impl.body.arms[i + 1].expr.vname
                                # impl.body.arms[j + 1].expr.vname
        /\ pc = "let_variant" =>
              \A i \in 0..(NumVariants - 1) : ENABLED (LetVariant /\ variant' = i)
        /\ AfterLet =>
              /\ variant \in 0..(NumVariants - 1)
              /\ trace[1] = [op |-> "gen_range", lo |-> 0,
                             hi |-> NumVariants, ret |-> variant]
        /\ AfterMatch =>
              /\ pc \in {"construct", "done"}
              /\ arm.vname = def.variants[variant + 1].name
        /\ pc = "done" =>
              /\ value.ty = def.name
              /\ value.vname = def.variants[variant + 1].name

C1_Witness ==
    /\ pc = "done"
    /\ IsEnum
    /\ NumVariants = 3
    /\ variant = 2
    /\ value.vname = "C"
    /\ def.variants[1].num_fields = 2
    /\ def.variants[3].num_fields = 0

\* C2: an enum of exactly one variant makes no range draw (the index is
\* the constant 0) and always builds that variant; the emitted code draws
\* from a range if and only if the enum has two or more variants.
C2_SingleVariantNoDraw ==
    (IsEnum /\ Emitted) =>
        /\ (impl.body.variant_expr.op = "gen_range") <=> (NumVariants >= 2)
        /\ AfterLet => ((RangeDraws # <<>>) <=> (NumVariants >= 2))
        /\ NumVariants = 1 =>
              /\ impl.body.variant_expr = [op |-> "const", lo |-> 0, hi |-> 0]
              /\ RangeDraws = <<>>
              /\ AfterLet => variant = 0
              /\ AfterMatch => arm.vname = def.variants[1].name
              /\ pc = "done" => value.vname = def.variants[1].name

C2_Witness ==
    /\ pc = "done"
    /\ IsEnum
    /\ NumVariants = 1
    /\ value.vname = "A"
    /\ Len(value.payload) = 2
    /\ RangeDraws = <<>>

\* C3: the fallback arm is never entered: whatever the index is (the
\* constant 0, or any value the range draw returns), one of the declared
\* arms has that index as its pattern.
C3_FallbackUnreachable ==
    /\ pc \notin {"loop", "panic"}
    /\ (IsEnum /\ AfterLet) =>
          \E i \in DOMAIN impl.body.arms : impl.body.arms[i].ord = variant

C3_Witness ==
    /\ pc = "construct"
    /\ IsEnum
    /\ NumVariants = 3
    /\ variant = NumVariants - 1
    /\ arm.vname = "C"

\* C4: every struct and every enum with at least one variant, whatever its
\* field groups, type parameters and where clause, matches a rule and gets
\* an impl for its own name and parameters; an enum with no variant matches
\* no rule, and nothing is emitted for it.
C4_Totality ==
    pc # "parsed" =>
        IF IsEnum /\ NumVariants = 0
        THEN pc = "compile_error" /\ ~Emitted
        ELSE /\ pc # "compile_error"
             /\ Emitted
             /\ impl.name = def.name
             /\ impl.params = def.tnames
             /\ impl.body.tag = def.item

C4_Witness ==
    /\ pc = "compile_error"
    /\ IsEnum
    /\ NumVariants = 0
    /\ Len(def.tnames) = 2
    /\ Len(def.preds) = 2

\* C5: the where clause of the emitted impl is one `P: ::rand::Rand` for
\* each declared type parameter, in order, followed by the user's
\* predicates, all of them and unchanged, also when the user wrote the
\* bound the macro adds.
C5_WhereClause ==
    Emitted =>
        /\ Len(impl.clause) = Len(def.tnames) + Len(def.preds)
        /\ \A i \in DOMAIN def.tnames :
              impl.clause[i] = [param |-> def.tnames[i], bound |-> RandBound]
        /\ \A j \in DOMAIN def.preds :
              impl.clause[Len(def.tnames) + j] = def.preds[j]

C5_Witness ==
    /\ Emitted
    /\ def.tnames = <<"T", "U">>
    /\ Len(def.preds) = 2
    /\ def.preds[1] = [param |-> "T", bound |-> RandBound]
    /\ Len(impl.clause) = 4
    /\ impl.clause[1] = impl.clause[3]

\* C6: the impl is emitted with `where` exactly when the definition has a
\* type parameter or a user predicate, and the clause after `where` is then
\* not empty.
C6_WhereIffNonEmpty ==
    Emitted =>
        /\ impl.has_where <=> (def.tnames # <<>> \/ def.preds # <<>>)
        /\ impl.has_where <=> (impl.clause # <<>>)

C6_Witness ==
    /\ Emitted
    /\ def.tnames = <<>>
    /\ def.preds = <<>>
    /\ ~impl.has_where

\* C7: building a group of k fields calls gen() once per field, in declared
\* order; the i-th value generated goes to the i-th declared field, no
\* value goes to two fields, and on return all k fields are populated.
C7_FieldCompleteness ==
    pc \in {"construct", "done"} =>
        /\ Len(payload) <= Len(SelectedFields)
        /\ Len(GenCalls) = Len(payload)
        /\ \A i \in DOMAIN payload :
              /\ payload[i].pos = i
              /\ payload[i].name = SelectedFields[i].name
              /\ payload[i].val = GenCalls[i].ret
              /\ \A j \in DOMAIN payload : i # j => payload[i].val # payload[j].val
        /\ pc = "done" =>
              /\ Len(payload) = Len(SelectedFields)
              /\ value.payload = payload

C7_Witness ==
    /\ pc = "done"
    /\ IsEnum
    /\ variant = 1
    /\ def.variants[2].kind = "record"
    /\ Len(value.payload) = 2
    /\ value.payload[1].name = "x"
    /\ value.payload[2].name = "y"
    /\ value.payload[1].val # value.payload[2].val

\* C8: a group without fields (a unitary struct or variant, an empty
\* record or tuple) is built without any gen() call and carries no payload;
\* the calls on the random source are then the same whatever the kind of
\* the group: the range draw of an enum of two or more variants, or none.
C8_FieldlessNoGen ==
    (pc = "done" /\ Len(SelectedFields) = 0) =>
        /\ GenCalls = <<>>
        /\ value.payload = <<>>
        /\ trace = IF IsEnum /\ NumVariants >= 2
                   THEN << [op |-> "gen_range", lo |-> 0,
                            hi |-> NumVariants, ret |-> variant] >>
                   ELSE <<>>

C8_Witness ==
    /\ pc = "done"
    /\ IsEnum
    /\ NumVariants = 3
    /\ variant = 2
    /\ def.variants[3].kind = "record"
    /\ def.variants[3].fields = <<>>
    /\ value.style = "record"
    /\ value.payload = <<>>

\* The fallback arm has been entered: no declared arm has the index.
FallbackEntered ==
    /\ IsEnum
    /\ AfterMatch
    /\ SelectArm(impl.body.arms, variant) = 0

\* C9, as claimed: once the fallback arm is entered the function ends in an
\* error (a panic), it neither goes on silently nor runs for ever.
C9_FallbackSignalsError ==
    FallbackEntered => pc = "panic"

\* C9, as the code has it: once the fallback arm is entered the function is
\* in `loop { }` and stays there: no value is returned, no further call is
\* made on the random source, and nothing is signalled.
C9_FallbackLoopsForever ==
    /\ [](FallbackEntered => (pc = "loop" /\ value = NoValue))
    /\ [][pc = "loop" => UNCHANGED vars]_vars

C9_Witness ==
    /\ pc = "loop"
    /\ rng = "any"
    /\ NumVariants = 2
    /\ variant = 2
    /\ Len(trace) = 1

\* The calls on the random source so far are one range draw followed by
\* gen() calls, no more of them than the selected variant has fields.
C10_DrawThenFields ==
    (IsEnum /\ NumVariants >= 2 /\ AfterLet) =>
        /\ Len(RangeDraws) = 1
        /\ IsRangeDraw(trace[1])
        /\ \A i \in 2..Len(trace) : IsGen(trace[i])
        /\ Len(GenCalls) <= def.variants[variant + 1].num_fields
        /\ pc = "match" => Len(trace) = 1
        /\ pc = "done" =>
              /\ Len(GenCalls) = def.variants[variant + 1].num_fields
              /\ value.tag = "value"
              /\ [i \in DOMAIN value.payload |-> value.payload[i].name]
                    = [i \in DOMAIN SelectedFields |-> SelectedFields[i].name]

\* C10: one construction of an enum of N >= 2 variants makes exactly one
\* range draw, before any gen() call, then gen() calls for the fields of
\* the selected variant only, and it ends with a value.
C10_OrderAndTermination ==
    /\ []C10_DrawThenFields
    /\ <>((IsEnum /\ NumVariants >= 2) => (pc = "done" /\ value.tag = "value"))

C10_Witness ==
    /\ pc = "done"
    /\ IsEnum
    /\ NumVariants = 3
    /\ variant = 1
    /\ def.variants[1].num_fields = 2
    /\ def.variants[2].num_fields = 1
    /\ def.variants[3].num_fields = 2
    /\ Len(trace) = 2

====
